---- MODULE Spec2Model ----
(***************************************************************************)
(* The Signal Hunt receiver (src/receiver/signal_hunt_receiver.ino): the   *)
(* per-transmitter signal filter, distance estimate, liveness sweep,       *)
(* discovery state machine and the EEPROM-backed game state.               *)
(*                                                                         *)
(* Number representation.  The sketch computes with float; the model uses  *)
(* fixed point: signal strength in tenths of a dBm (smoothedRSSI -100.0 is *)
(* -1000), distance in millimetres (999.0 m is 999000, 0.5 m is 500), time *)
(* in milliseconds as millis() returns it, the radar angle in halves of a   *)
(* degree.  Every rounding is to nearest.                                  *)
(***************************************************************************)
EXTENDS Integers, Sequences, FiniteSets, TLC

\* ---------------------------------------------------------------- bounds
\* Transmitters of transmitterList the model keeps (the list has six).
NumTx == 2
\* Slots of foundTransmitters[] past the registry (MAX_TRANSMITTERS is 10, of
\* which the six-entry list leaves four unused).
ExtraSlots == 1
\* millis() is explored up to MaxTicks steps of TickLength.
MaxTicks == 5
\* Samples a transmitter delivers in one period of activity.
MaxRun == 6
\* Samples of the 200 ms scenario.
ScenarioSamples == 32
\* Samples of the estimator scenario.
EstimatorSamples == 3

\* ------------------------------------------------------ game configuration
DISCOVERY_RANGE == 500
MIN_SIGNAL_COUNT == 5
DISCOVERY_RSSI_THRESHOLD == -700
SIGNAL_STABILITY_PERIOD == 5000
SIGNAL_TIMEOUT == 5000
RESET_COOLDOWN == 5000
SIGNAL_COUNT_CAP == 20
UNSET_RSSI == -100
UNKNOWN_DISTANCE == 999000
MIN_DISTANCE == 500
MAX_DISTANCE == 50000
SCORE_UPPER_BOUND == 10000
INITIAL_MAX_RANGE == 30000
TX_POWER == -650
PATH_LOSS_X10 == 35
\* 360 and 180 degrees, in the half degrees the radar angle is kept in.
FULL_TURN == 360 * 2
HALF_TURN == 180 * 2

\* The time between two passes of loop() the model looks at (handleClient(),
\* the delay() and the passes in between, which change nothing), in ms.
TickLength == SIGNAL_TIMEOUT \div 2
MaxTime == MaxTicks * TickLength

transmitterList ==
  << [id |-> 1001, name |-> "Alpha",   points |-> 10],
     [id |-> 1002, name |-> "Beta",    points |-> 15],
     [id |-> 1003, name |-> "Gamma",   points |-> 20],
     [id |-> 1004, name |-> "Delta",   points |-> 25],
     [id |-> 1005, name |-> "Epsilon", points |-> 30],
     [id |-> 1006, name |-> "Omega",   points |-> 50] >>

transmitterCount == NumTx
MAX_TRANSMITTERS == NumTx + ExtraSlots

TxIdx == 0 .. (transmitterCount - 1)
Slots == 0 .. (MAX_TRANSMITTERS - 1)

\* ------------------------------------------------------------- the inputs
\* WiFi.RSSI() readings in dBm: a strong one, and a weak one that coincides
\* with the "unset" marker of the filter.
RSSIValues == {-35, UNSET_RSSI}

\* The transmitters within radio range of the receiver.
Audible == {0}

\* Packets (SignalData): what the deployed transmitter of that id sends, one
\* with the id of a registered transmitter but other name and points, and one
\* with an id the registry does not hold.
GenuinePacket(i) ==
  [id |-> transmitterList[i + 1].id, name |-> transmitterList[i + 1].name,
   points |-> transmitterList[i + 1].points]
ForeignPacket(i) ==
  [id |-> transmitterList[i + 1].id, name |-> "Rogue", points |-> -5]
UnknownPacket == [id |-> 9999, name |-> "Nobody", points |-> 1]
Packets ==
  {GenuinePacket(i) : i \in Audible} \cup {ForeignPacket(i) : i \in Audible}
    \cup {UnknownPacket}

\* EEPROM contents the sketch may find at power-up: erased flash (all 0xFF),
\* a clean record, a record with a score above the bound, and the record of
\* an earlier game in which the second transmitter was found.
AllSlots(b) == [s \in Slots |-> b]
FlashImages ==
  { [score |-> -1,    found |-> AllSlots(TRUE)],
    [score |-> 0,     found |-> AllSlots(FALSE)],
    [score |-> 10001, found |-> [s \in Slots |-> s = 0]],
    [score |-> 15,    found |-> [s \in Slots |-> s = 1]] }

VARIABLES
  now,                  \* millis()
  transmitters,         \* TransmitterData transmitters[]
  gameState,            \* struct GameState gameState
  discoveryTimers,      \* static discoveryTimers[] of checkForNewDiscovery
  discoveryInProgress,  \* static discoveryInProgress[] of checkForNewDiscovery
  flash,                \* the committed EEPROM record: score and found flags
  commitsOk,            \* history: every EEPROM.commit() since power-up succeeded
  candSince,            \* history: per transmitter, when its unbroken run of
                        \*   samples meeting every precondition began (-1: none)
  runStart,             \* history: per transmitter, when its unbroken run of
                        \*   samples in range and above the threshold began
  runLen,               \* history: the length of that run, up to MIN_SIGNAL_COUNT
  resetAt,              \* history: millis() of the last reset since power-up (-1: none)
  lastEvent,            \* history: what the last step did, where the state
                        \*   does not show it
  inFlight              \* where the receive callback (Wi-Fi task) and the
                        \*   sweep (loop task) stand when neither has run to
                        \*   its end, with the sweep's local currentTime

vars == << now, transmitters, gameState, discoveryTimers, discoveryInProgress,
           flash, commitsOk, candSince, runStart, runLen, resetAt, lastEvent,
           inFlight >>

\* ------------------------------------------------------------ arithmetic
\* a / b rounded to the nearest integer, b > 0.
RoundDiv(a, b) == (2 * a + b) \div (2 * b)

Min(a, b) == IF a < b THEN a ELSE b
constrain(x, lo, hi) == IF x < lo THEN lo ELSE IF x > hi THEN hi ELSE x

\* 10^(r/35) * 10^4 for r = 0 .. 35.
Pow10Table ==
  << 10000, 10680, 11406, 12182, 13010, 13895, 14840, 15849, 16927, 18078,
     19307, 20620, 22022, 23520, 25119, 26827, 28651, 30599, 32680, 34903,
     37276, 39811, 42518, 45409, 48497, 51795, 55317, 59078, 63096, 67386,
     71969, 76862, 82089, 87671, 93633, 100000 >>

RECURSIVE Scale10(_, _)
Scale10(x, q) ==
  IF q = 0 THEN x
  ELSE IF q > 0 THEN Scale10(x * 10, q - 1)
  ELSE Scale10(RoundDiv(x, 10), q + 1)

\* pow(10, k / (10 * 3.5)) * 10^4 for a whole number of dB k.
Pow10At(k) == Scale10(Pow10Table[(k % PATH_LOSS_X10) + 1], k \div PATH_LOSS_X10)

\* Seeded fault: the path-loss exponent with its sign turned round.
rawDistance_signTurned(smoothed) ==
  LET e10 == smoothed - TX_POWER
      k   == e10 \div 10
      f   == e10 % 10
  IN  Pow10At(k) + RoundDiv((Pow10At(k + 1) - Pow10At(k)) * f, 10)

\* pow(10, (txPower - smoothedRssi) / (10 * pathLossExponent)) * 10^4, the
\* exponent's numerator in tenths of a dB, linear between whole dB.
rawDistance(smoothed) ==
  LET e10 == TX_POWER - smoothed
      k   == e10 \div 10
      f   == e10 % 10
  IN  Pow10At(k) + RoundDiv((Pow10At(k + 1) - Pow10At(k)) * f, 10)

\* Seeded fault: the estimate without constrain().
estimateDistance_unconstrained(smoothed) ==
  RoundDiv(rawDistance(smoothed) * 18, 100)

\* rawDistance * 1.8, then constrain(.., 0.5f, 50.0f); millimetres.
estimateDistance(smoothed) ==
  constrain(RoundDiv(rawDistance(smoothed) * 18, 100), MIN_DISTANCE, MAX_DISTANCE)

\* Seeded fault: the smoothing step without its first-reading branch.
smoothRSSI_alwaysBlends(previous, rssi) ==
  RoundDiv(2 * (rssi * 10) + 8 * previous, 10)

\* The exponential smoothing step, rssiAlpha = 0.2.
smoothRSSI(previous, rssi) ==
  IF previous = UNSET_RSSI * 10
    THEN rssi * 10
    ELSE RoundDiv(2 * (rssi * 10) + 8 * previous, 10)

\* ------------------------------------------------------------ persistence
\* saveGameState(): EEPROM.put of score and flags, then EEPROM.commit(); a
\* failed commit leaves the committed record as it was.
saveGameState(gs, committed, ok) ==
  IF ok THEN [score |-> gs.totalScore, found |-> gs.foundTransmitters]
        ELSE committed

CountFound(found) == Cardinality({s \in Slots : found[s]})

\* Seeded fault: loadGameState() with the range check missing its lower half.
loadGameState_upperBoundOnly(committed, ok) ==
  LET loaded == [totalScore |-> committed.score,
                 foundTransmitters |-> committed.found,
                 foundCount |-> CountFound(committed.found)]
      fresh  == [totalScore |-> 0,
                 foundTransmitters |-> AllSlots(FALSE),
                 foundCount |-> 0]
  IN  IF committed.score > SCORE_UPPER_BOUND
        THEN [gs |-> fresh, flash |-> saveGameState(fresh, committed, ok),
              saved |-> TRUE]
        ELSE [gs |-> loaded, flash |-> committed, saved |-> FALSE]

\* loadGameState() on the zero-initialised global gameState.
loadGameState(committed, ok) ==
  LET loaded == [totalScore |-> committed.score,
                 foundTransmitters |-> committed.found,
                 foundCount |-> CountFound(committed.found)]
      fresh  == [totalScore |-> 0,
                 foundTransmitters |-> AllSlots(FALSE),
                 foundCount |-> 0]
  IN  IF committed.score < 0 \/ committed.score > SCORE_UPPER_BOUND
        THEN [gs |-> fresh, flash |-> saveGameState(fresh, committed, ok),
              saved |-> TRUE]
        ELSE [gs |-> loaded, flash |-> committed, saved |-> FALSE]

initializeTransmitterDB ==
  [i \in TxIdx |->
     [id |-> transmitterList[i + 1].id,
      name |-> transmitterList[i + 1].name,
      points |-> transmitterList[i + 1].points,
      distance |-> UNKNOWN_DISTANCE,
      rssi |-> UNSET_RSSI,
      lastSeen |-> 0,
      isActive |-> FALSE,
      smoothedRSSI |-> UNSET_RSSI * 10,
      signalCount |-> 0,
      angle |-> (i * FULL_TURN) \div Len(transmitterList)]]

\* The program state a handler reads and writes, as one record.
Program ==
  [tx |-> transmitters, gs |-> gameState, timers |-> discoveryTimers,
   inProgress |-> discoveryInProgress, flash |-> flash]

\* setup(): loadGameState, initializeTransmitterDB, then the game state fields
\* set at the end of setup(); the statics of checkForNewDiscovery start zeroed.
setup(committed, ok) ==
  LET l == loadGameState(committed, ok)
  IN  [tx |-> initializeTransmitterDB,
       gs |-> [totalScore |-> l.gs.totalScore,
               foundTransmitters |-> l.gs.foundTransmitters,
               foundCount |-> l.gs.foundCount,
               sessionStart |-> 0,
               maxDistance |-> INITIAL_MAX_RANGE,
               lastResetTime |-> 0,
               resetMode |-> FALSE],
       timers |-> [i \in Slots |-> 0],
       inProgress |-> [i \in Slots |-> FALSE],
       flash |-> l.flash]

\* ------------------------------------------------------- sample handling
findTransmitterIndex(tx, id) ==
  IF \E i \in TxIdx : tx[i].id = id
    THEN CHOOSE i \in TxIdx : tx[i].id = id /\ \A j \in TxIdx : tx[j].id = id => i <= j
    ELSE -1

\* sin(m / 1000) * 1000 for 0 <= m <= 1571 (a quarter turn), by its series.
SinQuarter(m) ==
  LET sq == (m * m) \div 1000
      t3 == (sq * m) \div 6000
      t5 == (t3 * sq) \div 20000
      t7 == (t5 * sq) \div 42000
  IN  m - t3 + t5 - t7

\* sin(m / 1000) * 1000 for m >= 0.
SinMilli(m) ==
  LET r == m % 6283
  IN  IF r <= 1571 THEN SinQuarter(r)
      ELSE IF r <= 3142 THEN SinQuarter(3142 - r)
      ELSE IF r <= 4712 THEN 0 - SinQuarter(r - 3142)
      ELSE 0 - SinQuarter(6283 - r)

\* The radar angle after a sample at millis() = t (half degrees): 5%
\* of the way to baseAngle + sin(millis() / 10000.0) * 10.
driftAngle(angle, index, t) ==
  LET baseAngle == (((index * 60) % 360) * FULL_TURN) \div 360
      drift     == RoundDiv(SinMilli(t \div 10) * FULL_TURN, 36000)
      raw       == baseAngle + drift - angle
      angleDiff == IF raw > HALF_TURN THEN raw - FULL_TURN
                   ELSE IF raw < 0 - HALF_TURN THEN raw + FULL_TURN
                   ELSE raw
      moved     == angle + RoundDiv(angleDiff * 5, 100)
  IN  IF moved >= FULL_TURN THEN moved - FULL_TURN
      ELSE IF moved < 0 THEN moved + FULL_TURN
      ELSE moved

\* Seeded fault: updateTransmitterData without the cap on signalCount.
updateTransmitterData_uncapped(p, index, rssi, data, t) ==
  LET old      == p.tx[index]
      smoothed == smoothRSSI(old.smoothedRSSI, rssi)
      dist     == estimateDistance(smoothed)
      maxD     == p.gs.maxDistance
  IN  [p EXCEPT
        !.tx[index] = [old EXCEPT !.lastSeen = t,
                                  !.isActive = TRUE,
                                  !.signalCount = old.signalCount + 1,
                                  !.name = data.name,
                                  !.points = data.points,
                                  !.rssi = rssi,
                                  !.smoothedRSSI = smoothed,
                                  !.distance = dist,
                                  !.angle = driftAngle(old.angle, index, t)],
        !.gs.maxDistance =
           IF 10 * dist > 8 * maxD /\ dist < maxD
             THEN RoundDiv(95 * maxD + 6 * dist, 100)
             ELSE maxD]

\* updateTransmitterData(index, rssi, data) at millis() = t.
updateTransmitterData(p, index, rssi, data, t) ==
  LET old      == p.tx[index]
      smoothed == smoothRSSI(old.smoothedRSSI, rssi)
      dist     == estimateDistance(smoothed)
      maxD     == p.gs.maxDistance
  IN  [p EXCEPT
        !.tx[index] = [old EXCEPT !.lastSeen = t,
                                  !.isActive = TRUE,
                                  !.signalCount = Min(SIGNAL_COUNT_CAP, old.signalCount + 1),
                                  !.name = data.name,
                                  !.points = data.points,
                                  !.rssi = rssi,
                                  !.smoothedRSSI = smoothed,
                                  !.distance = dist,
                                  !.angle = driftAngle(old.angle, index, t)],
        !.gs.maxDistance =
           IF 10 * dist > 8 * maxD /\ dist < maxD
             THEN RoundDiv(95 * maxD + 6 * dist, 100)
             ELSE maxD]

\* The guard at the head of checkForNewDiscovery.
DiscoverySuppressed(gs, t) ==
  gs.resetMode \/ t - gs.lastResetTime < RESET_COOLDOWN

\* Seeded fault: checkForNewDiscovery without the test of the found flag.
checkForNewDiscovery_refinds(p, index, t, ok) ==
  LET x == p.tx[index]
      discard == [p EXCEPT !.inProgress[index] = FALSE, !.timers[index] = 0]
  IN  IF DiscoverySuppressed(p.gs, t) THEN p
      ELSE IF x.signalCount < MIN_SIGNAL_COUNT THEN discard
      ELSE IF x.smoothedRSSI < DISCOVERY_RSSI_THRESHOLD THEN discard
      ELSE IF x.distance <= DISCOVERY_RANGE
        THEN IF ~p.inProgress[index]
               THEN [p EXCEPT !.inProgress[index] = TRUE, !.timers[index] = t]
             ELSE IF t - p.timers[index] >= SIGNAL_STABILITY_PERIOD
               THEN LET gs2 == [p.gs EXCEPT !.foundTransmitters[index] = TRUE,
                                            !.totalScore = @ + x.points,
                                            !.foundCount = @ + 1]
                    IN  [p EXCEPT !.gs = gs2,
                                  !.flash = saveGameState(gs2, p.flash, ok),
                                  !.inProgress[index] = FALSE]
             ELSE p
      ELSE discard

\* Seeded fault: checkForNewDiscovery comparing against half the stability
\* period.
checkForNewDiscovery_halfWindow(p, index, t, ok) ==
  LET x == p.tx[index]
      discard == [p EXCEPT !.inProgress[index] = FALSE, !.timers[index] = 0]
  IN  IF DiscoverySuppressed(p.gs, t) THEN p
      ELSE IF x.signalCount < MIN_SIGNAL_COUNT THEN discard
      ELSE IF x.smoothedRSSI < DISCOVERY_RSSI_THRESHOLD THEN discard
      ELSE IF x.distance <= DISCOVERY_RANGE /\ ~p.gs.foundTransmitters[index]
        THEN IF ~p.inProgress[index]
               THEN [p EXCEPT !.inProgress[index] = TRUE, !.timers[index] = t]
             ELSE IF t - p.timers[index] >= SIGNAL_STABILITY_PERIOD \div 2
               THEN LET gs2 == [p.gs EXCEPT !.foundTransmitters[index] = TRUE,
                                            !.totalScore = @ + x.points,
                                            !.foundCount = @ + 1]
                    IN  [p EXCEPT !.gs = gs2,
                                  !.flash = saveGameState(gs2, p.flash, ok),
                                  !.inProgress[index] = FALSE]
             ELSE p
      ELSE discard

\* Seeded fault: checkForNewDiscovery without its final else branch.
checkForNewDiscovery_keepsFar(p, index, t, ok) ==
  LET x == p.tx[index]
      discard == [p EXCEPT !.inProgress[index] = FALSE, !.timers[index] = 0]
  IN  IF DiscoverySuppressed(p.gs, t) THEN p
      ELSE IF x.signalCount < MIN_SIGNAL_COUNT THEN discard
      ELSE IF x.smoothedRSSI < DISCOVERY_RSSI_THRESHOLD THEN discard
      ELSE IF x.distance <= DISCOVERY_RANGE /\ ~p.gs.foundTransmitters[index]
        THEN IF ~p.inProgress[index]
               THEN [p EXCEPT !.inProgress[index] = TRUE, !.timers[index] = t]
             ELSE IF t - p.timers[index] >= SIGNAL_STABILITY_PERIOD
               THEN LET gs2 == [p.gs EXCEPT !.foundTransmitters[index] = TRUE,
                                            !.totalScore = @ + x.points,
                                            !.foundCount = @ + 1]
                    IN  [p EXCEPT !.gs = gs2,
                                  !.flash = saveGameState(gs2, p.flash, ok),
                                  !.inProgress[index] = FALSE]
             ELSE p
      ELSE p

\* checkForNewDiscovery(index) at millis() = t; ok: whether the commit of
\* saveGameState succeeds, should it run.
checkForNewDiscovery(p, index, t, ok) ==
  LET x == p.tx[index]
      discard == [p EXCEPT !.inProgress[index] = FALSE, !.timers[index] = 0]
  IN  IF DiscoverySuppressed(p.gs, t) THEN p
      ELSE IF x.signalCount < MIN_SIGNAL_COUNT THEN discard
      ELSE IF x.smoothedRSSI < DISCOVERY_RSSI_THRESHOLD THEN discard
      ELSE IF x.distance <= DISCOVERY_RANGE /\ ~p.gs.foundTransmitters[index]
        THEN IF ~p.inProgress[index]
               THEN [p EXCEPT !.inProgress[index] = TRUE, !.timers[index] = t]
             ELSE IF t - p.timers[index] >= SIGNAL_STABILITY_PERIOD
               THEN LET gs2 == [p.gs EXCEPT !.foundTransmitters[index] = TRUE,
                                            !.totalScore = @ + x.points,
                                            !.foundCount = @ + 1]
                    IN  [p EXCEPT !.gs = gs2,
                                  !.flash = saveGameState(gs2, p.flash, ok),
                                  !.inProgress[index] = FALSE]
             ELSE p
      ELSE discard

\* Whether that call of checkForNewDiscovery reaches saveGameState.
DiscoverySaves(p, index, t) ==
  /\ ~DiscoverySuppressed(p.gs, t)
  /\ p.tx[index].signalCount >= MIN_SIGNAL_COUNT
  /\ p.tx[index].smoothedRSSI >= DISCOVERY_RSSI_THRESHOLD
  /\ p.tx[index].distance <= DISCOVERY_RANGE
  /\ ~p.gs.foundTransmitters[index]
  /\ p.inProgress[index]
  /\ t - p.timers[index] >= SIGNAL_STABILITY_PERIOD

\* Seeded fault: OnDataReceived without the test of data_len.
OnDataReceivedBody_anySize(p, data, rssi, sizeOk, t, ok) ==
  IF p.gs.resetMode THEN p
  ELSE LET index == findTransmitterIndex(p.tx, data.id)
       IN  IF index >= 0
             THEN checkForNewDiscovery(updateTransmitterData(p, index, rssi, data, t),
                                       index, t, ok)
             ELSE p

\* Seeded fault: OnDataReceived without the test of resetMode.
OnDataReceivedBody_noCooldown(p, data, rssi, sizeOk, t, ok) ==
  IF ~sizeOk THEN p
  ELSE LET index == findTransmitterIndex(p.tx, data.id)
       IN  IF index >= 0
             THEN checkForNewDiscovery(updateTransmitterData(p, index, rssi, data, t),
                                       index, t, ok)
             ELSE p

\* The body of OnDataReceived: what the callback does to the program state.
\* sizeOk: data_len == sizeof(SignalData).
OnDataReceivedBody(p, data, rssi, sizeOk, t, ok) ==
  IF p.gs.resetMode THEN p
  ELSE IF ~sizeOk THEN p
  ELSE LET index == findTransmitterIndex(p.tx, data.id)
       IN  IF index >= 0
             THEN checkForNewDiscovery(updateTransmitterData(p, index, rssi, data, t),
                                       index, t, ok)
             ELSE p

\* ------------------------------------------------------------- liveness
\* Seeded fault: updateTransmitterStatus() leaving signalCount as it is.
updateTransmitterStatus_keepsCount(tx, t) ==
  [i \in TxIdx |->
     IF tx[i].isActive /\ t - tx[i].lastSeen > SIGNAL_TIMEOUT
       THEN [tx[i] EXCEPT !.isActive = FALSE,
                          !.distance = UNKNOWN_DISTANCE]
       ELSE tx[i]]

\* Seeded fault: updateTransmitterStatus() waiting two timeouts.
updateTransmitterStatus_late(tx, t) ==
  [i \in TxIdx |->
     IF tx[i].isActive /\ t - tx[i].lastSeen > SIGNAL_TIMEOUT * 2
       THEN [tx[i] EXCEPT !.isActive = FALSE,
                          !.distance = UNKNOWN_DISTANCE,
                          !.signalCount = 0]
       ELSE tx[i]]

\* Seeded fault: updateTransmitterStatus() setting isActive from the age of
\* the last sample in both directions.
updateTransmitterStatus_recomputes(tx, t) ==
  [i \in TxIdx |->
     IF t - tx[i].lastSeen > SIGNAL_TIMEOUT
       THEN IF tx[i].isActive
              THEN [tx[i] EXCEPT !.isActive = FALSE,
                                 !.distance = UNKNOWN_DISTANCE,
                                 !.signalCount = 0]
              ELSE tx[i]
       ELSE [tx[i] EXCEPT !.isActive = TRUE]]

\* t - since > limit as the sketch computes it, in unsigned long: a negative
\* difference wraps to 2^32 less its size, which for the times looked at is
\* above 2^31 and so above every limit of the sketch.
UnsignedOver(t, since, limit) == t - since > limit \/ t < since

\* updateTransmitterStatus() with currentTime = t.
updateTransmitterStatus(tx, t) ==
  [i \in TxIdx |->
     IF tx[i].isActive /\ UnsignedOver(t, tx[i].lastSeen, SIGNAL_TIMEOUT)
       THEN [tx[i] EXCEPT !.isActive = FALSE,
                          !.distance = UNKNOWN_DISTANCE,
                          !.signalCount = 0]
       ELSE tx[i]]

\* Seeded fault: loop() without the end of the reset cooldown.
loopBody_sweepOnly(p, t) ==
  [p EXCEPT !.tx = updateTransmitterStatus(p.tx, t)]

\* The body of loop() after handleClient(): the sweep and the end of the
\* reset cooldown, at millis() = t.
loopBody(p, t) ==
  [p EXCEPT !.tx = updateTransmitterStatus(p.tx, t),
            !.gs.resetMode =
               IF p.gs.resetMode /\ t - p.gs.lastResetTime > RESET_COOLDOWN
                 THEN FALSE ELSE @]

\* ------------------------------------------------------------ snapshot
\* The JSON object handleTransmittersAPI() adds for an entry.
snapshotObject(e) ==
  [id |-> e.id, name |-> e.name, distance |-> e.distance, rssi |-> e.rssi,
   points |-> e.points, lastSeen |-> e.lastSeen, isActive |-> e.isActive,
   angle |-> e.angle]

\* The loop of handleTransmittersAPI() from index i on; acc holds the array
\* and activeCount so far.
RECURSIVE snapshotLoop(_, _, _)
snapshotLoop(tx, i, acc) ==
  IF i >= transmitterCount THEN acc
  ELSE snapshotLoop(tx, i + 1,
         IF tx[i].isActive
           THEN [list |-> Append(acc.list, snapshotObject(tx[i])),
                 activeCount |-> acc.activeCount + 1]
           ELSE acc)

\* Seeded fault: handleTransmittersAPI() listing inactive entries too.
handleTransmittersAPI_listsAll(p, t) ==
  LET r == IF ~p.gs.resetMode
             THEN [list |-> [k \in 1..transmitterCount |-> snapshotObject(p.tx[k - 1])],
                   activeCount |-> transmitterCount]
             ELSE [list |-> << >>, activeCount |-> 0]
  IN  [transmitters |-> r.list, timestamp |-> t, activeCount |-> r.activeCount,
       maxRange |-> p.gs.maxDistance, resetMode |-> p.gs.resetMode]

\* The document handleTransmittersAPI() sends at millis() = t.
handleTransmittersAPI(p, t) ==
  LET r == IF ~p.gs.resetMode
             THEN snapshotLoop(p.tx, 0, [list |-> << >>, activeCount |-> 0])
             ELSE [list |-> << >>, activeCount |-> 0]
  IN  [transmitters |-> r.list, timestamp |-> t, activeCount |-> r.activeCount,
       maxRange |-> p.gs.maxDistance, resetMode |-> p.gs.resetMode]

\* The foundTransmitters array handleScoreAPI() builds from index i on.
RECURSIVE foundArray(_, _, _)
foundArray(p, i, acc) ==
  IF i >= transmitterCount THEN acc
  ELSE foundArray(p, i + 1,
         IF p.gs.foundTransmitters[i] THEN Append(acc, p.tx[i].id) ELSE acc)

\* The document handleScoreAPI() sends at millis() = t.
handleScoreAPI(p, t) ==
  [totalScore |-> p.gs.totalScore,
   foundCount |-> p.gs.foundCount,
   sessionTime |-> t - p.gs.sessionStart,
   foundTransmitters |-> foundArray(p, 0, << >>)]

\* The document handleStatusAPI() sends at millis() = t, but for the
\* station's RSSI and the free heap.
handleStatusAPI(p, t) ==
  [uptime |-> t \div 1000,
   activeSignals |-> Cardinality({i \in TxIdx : p.tx[i].isActive}),
   resetMode |-> p.gs.resetMode]

\* The two arrays handleDownloadAPI() builds, from index i on.
RECURSIVE downloadFound(_, _, _)
downloadFound(p, i, acc) ==
  IF i >= transmitterCount THEN acc
  ELSE downloadFound(p, i + 1,
         IF p.gs.foundTransmitters[i]
           THEN Append(acc, [id |-> p.tx[i].id, name |-> p.tx[i].name,
                             points |-> p.tx[i].points])
           ELSE acc)

RECURSIVE downloadActive(_, _, _)
downloadActive(p, i, acc) ==
  IF i >= transmitterCount THEN acc
  ELSE downloadActive(p, i + 1,
         IF p.tx[i].isActive
           THEN Append(acc, [id |-> p.tx[i].id, name |-> p.tx[i].name,
                             distance |-> p.tx[i].distance, rssi |-> p.tx[i].rssi])
           ELSE acc)

\* The document handleDownloadAPI() sends at millis() = t, but for the
\* constant fields.
handleDownloadAPI(p, t) ==
  [totalScore |-> p.gs.totalScore,
   foundCount |-> p.gs.foundCount,
   gameTime |-> t - p.gs.sessionStart,
   foundTransmitters |-> downloadFound(p, 0, << >>),
   activeTransmitters |-> downloadActive(p, 0, << >>),
   timestamp |-> t]

\* The GET routes that answer with a document.
QueryPaths == {"transmitters", "score", "status", "download"}

\* Seeded fault: the download handler zeroing foundCount.
handleClientGet_downloadClears(p, path, t) ==
  [p   |-> IF path = "download" THEN [p EXCEPT !.gs.foundCount = 0] ELSE p,
   doc |-> CASE path = "transmitters" -> handleTransmittersAPI(p, t)
             [] path = "score"        -> handleScoreAPI(p, t)
             [] path = "status"       -> handleStatusAPI(p, t)
             [] path = "download"     -> handleDownloadAPI(p, t)]

\* server.handleClient() serving GET path at millis() = t: the program state
\* the handler leaves and the document it sends.
handleClientGet(p, path, t) ==
  [p   |-> p,
   doc |-> CASE path = "transmitters" -> handleTransmittersAPI(p, t)
             [] path = "score"        -> handleScoreAPI(p, t)
             [] path = "status"       -> handleStatusAPI(p, t)
             [] path = "download"     -> handleDownloadAPI(p, t)]

\* ---------------------------------------------------------------- reset
\* Seeded fault: handleResetAPI() saving before it clears.
handleResetAPI_savesFirst(p, t, ok) ==
  LET gs2 == [p.gs EXCEPT
                !.totalScore = 0,
                !.foundCount = 0,
                !.sessionStart = t,
                !.lastResetTime = t,
                !.resetMode = TRUE,
                !.foundTransmitters =
                   [s \in Slots |-> IF s \in TxIdx THEN FALSE ELSE @[s]]]
  IN  [p EXCEPT
        !.gs = gs2,
        !.tx = [i \in TxIdx |->
                  [p.tx[i] EXCEPT !.isActive = FALSE,
                                  !.distance = UNKNOWN_DISTANCE,
                                  !.rssi = UNSET_RSSI,
                                  !.smoothedRSSI = UNSET_RSSI * 10,
                                  !.lastSeen = 0,
                                  !.signalCount = 0]],
        !.flash = saveGameState(p.gs, p.flash, ok)]

\* Seeded fault: handleResetAPI() clearing the flag of the first transmitter
\* only.
handleResetAPI_firstFlagOnly(p, t, ok) ==
  LET gs2 == [p.gs EXCEPT
                !.totalScore = 0,
                !.foundCount = 0,
                !.sessionStart = t,
                !.lastResetTime = t,
                !.resetMode = TRUE,
                !.foundTransmitters = [@ EXCEPT ![0] = FALSE]]
  IN  [p EXCEPT
        !.gs = gs2,
        !.tx = [i \in TxIdx |->
                  [p.tx[i] EXCEPT !.isActive = FALSE,
                                  !.distance = UNKNOWN_DISTANCE,
                                  !.rssi = UNSET_RSSI,
                                  !.smoothedRSSI = UNSET_RSSI * 10,
                                  !.lastSeen = 0,
                                  !.signalCount = 0]],
        !.flash = saveGameState(gs2, p.flash, ok)]

\* Seeded fault: handleResetAPI() clearing the score and the flags only.
handleResetAPI_scoreOnly(p, t, ok) ==
  LET gs2 == [p.gs EXCEPT
                !.totalScore = 0,
                !.foundCount = 0,
                !.foundTransmitters =
                   [s \in Slots |-> IF s \in TxIdx THEN FALSE ELSE @[s]]]
  IN  [p EXCEPT
        !.gs = gs2,
        !.flash = saveGameState(gs2, p.flash, ok)]

\* Seeded fault: handleResetAPI() undoing the reset when its commit fails.
handleResetAPI_undoneOnFailure(p, t, ok) ==
  LET gs2 == [p.gs EXCEPT
                !.totalScore = 0,
                !.foundCount = 0,
                !.sessionStart = t,
                !.lastResetTime = t,
                !.resetMode = TRUE,
                !.foundTransmitters =
                   [s \in Slots |-> IF s \in TxIdx THEN FALSE ELSE @[s]]]
  IN  IF ok
        THEN [p EXCEPT
               !.gs = gs2,
               !.tx = [i \in TxIdx |->
                         [p.tx[i] EXCEPT !.isActive = FALSE,
                                         !.distance = UNKNOWN_DISTANCE,
                                         !.rssi = UNSET_RSSI,
                                         !.smoothedRSSI = UNSET_RSSI * 10,
                                         !.lastSeen = 0,
                                         !.signalCount = 0]],
               !.flash = saveGameState(gs2, p.flash, ok)]
        ELSE p

\* handleResetAPI() at millis() = t.
handleResetAPI(p, t, ok) ==
  LET gs2 == [p.gs EXCEPT
                !.totalScore = 0,
                !.foundCount = 0,
                !.sessionStart = t,
                !.lastResetTime = t,
                !.resetMode = TRUE,
                !.foundTransmitters =
                   [s \in Slots |-> IF s \in TxIdx THEN FALSE ELSE @[s]]]
  IN  [p EXCEPT
        !.gs = gs2,
        !.tx = [i \in TxIdx |->
                  [p.tx[i] EXCEPT !.isActive = FALSE,
                                  !.distance = UNKNOWN_DISTANCE,
                                  !.rssi = UNSET_RSSI,
                                  !.smoothedRSSI = UNSET_RSSI * 10,
                                  !.lastSeen = 0,
                                  !.signalCount = 0]],
        !.flash = saveGameState(gs2, p.flash, ok)]

\* ------------------------------------------------------------ the machine
Install(p) ==
  /\ transmitters' = p.tx
  /\ gameState' = p.gs
  /\ discoveryTimers' = p.timers
  /\ discoveryInProgress' = p.inProgress
  /\ flash' = p.flash
  /\ inFlight' = inFlight

NoRun == [i \in TxIdx |-> -1]
NoEvent == [kind |-> "none", index |-> -1, value |-> 0]

\* No callback and no sweep is part-way through.
NothingInFlight ==
  [callback |-> "none", index |-> -1, sweeping |-> FALSE, currentTime |-> 0]

\* Power-up with the committed record given: setup() runs, millis() is t.
PowerUp(committed, ok, t) ==
  LET p == setup(committed, ok)
      l == loadGameState(committed, ok)
  IN  /\ now = t
      /\ transmitters = p.tx
      /\ gameState = p.gs
      /\ discoveryTimers = p.timers
      /\ discoveryInProgress = p.inProgress
      /\ flash = p.flash
      /\ commitsOk = (l.saved => ok)
      /\ candSince = NoRun
      /\ runStart = NoRun
      /\ runLen = [i \in TxIdx |-> 0]
      /\ resetAt = -1
      /\ lastEvent = [kind |-> "setup", index |-> -1, value |-> committed.score]
      /\ inFlight = NothingInFlight

Init == \E committed \in FlashImages, ok \in BOOLEAN : PowerUp(committed, ok, 0)

\* Power is cycled: RAM and millis() start over, the committed record stays.
Restart ==
  \E ok \in BOOLEAN :
    LET p == setup(flash, ok)
        l == loadGameState(flash, ok)
    IN  /\ (ok = FALSE) => l.saved       \* ok matters only when a commit runs
        /\ now' = 0
        /\ Install(p)
        /\ commitsOk' = (l.saved => ok)
        /\ candSince' = NoRun
        /\ runStart' = NoRun
        /\ runLen' = [i \in TxIdx |-> 0]
        /\ resetAt' = -1
        /\ lastEvent' = [kind |-> "setup", index |-> -1, value |-> flash.score]

\* Transmitter i in state p at t is strong and near enough, and discovery is
\* not suppressed.
Qualifies(p, i, t) ==
  /\ ~DiscoverySuppressed(p.gs, t)
  /\ p.tx[i].smoothedRSSI >= DISCOVERY_RSSI_THRESHOLD
  /\ p.tx[i].distance <= DISCOVERY_RANGE

\* Every precondition of a discovery holds of transmitter i in state p at t.
MeetsAll(p, i, t) ==
  /\ Qualifies(p, i, t)
  /\ p.tx[i].signalCount >= MIN_SIGNAL_COUNT

\* The ESP-NOW receive callback runs for one packet; ok: whether the commit
\* succeeds, should the callback save.
Receive(data, rssi, sizeOk, ok) ==
  LET index   == findTransmitterIndex(transmitters, data.id)
      handled == ~gameState.resetMode /\ sizeOk /\ index >= 0
      updated == IF handled
                   THEN updateTransmitterData(Program, index, rssi, data, now)
                   ELSE Program
      saves   == handled /\ DiscoverySaves(updated, index, now)
      p       == OnDataReceivedBody(Program, data, rssi, sizeOk, now, ok)
      \* the transmitter the packet names, handled or not
      named   == IF sizeOk THEN index ELSE -1
      meets   == handled /\ MeetsAll(updated, index, now)
                         /\ ~gameState.foundTransmitters[index]
      inRun   == handled /\ Qualifies(updated, index, now)
      checked == handled /\ ~DiscoverySuppressed(gameState, now)
  IN  /\ (ok = FALSE) => saves       \* ok matters only when a commit runs
      /\ Install(p)
      /\ now' = now
      /\ commitsOk' = (commitsOk /\ (saves => ok))
      /\ candSince' = IF named < 0 THEN candSince
                      ELSE [candSince EXCEPT ![named] =
                              IF meets THEN (IF @ = -1 THEN now ELSE @) ELSE -1]
      /\ runStart' = IF named < 0 THEN runStart
                     ELSE [runStart EXCEPT ![named] =
                             IF inRun THEN (IF @ = -1 THEN now ELSE @) ELSE -1]
      /\ runLen' = IF named < 0 THEN runLen
                   ELSE [runLen EXCEPT ![named] =
                           IF inRun THEN Min(MIN_SIGNAL_COUNT, @ + 1) ELSE 0]
      /\ resetAt' = resetAt
      /\ lastEvent' =
           IF named >= 0 /\ gameState.resetMode
             THEN [kind |-> "dropped", index |-> named, value |-> rssi]
           ELSE IF checked /\ discoveryInProgress[index]
                           /\ ~gameState.foundTransmitters[index]
                           /\ ~MeetsAll(updated, index, now)
             THEN [kind |-> "discarded", index |-> index, value |-> discoveryTimers[index]]
           ELSE NoEvent

\* What the surroundings deliver: a transmitter sends at most MaxRun samples
\* in one period of activity, and a weak reading comes only while the filter
\* is unset or sits at one of the readings.
Deliverable(index, rssi) ==
  index >= 0 =>
    /\ transmitters[index].signalCount < MaxRun
    /\ rssi = UNSET_RSSI =>
         transmitters[index].smoothedRSSI \in {r * 10 : r \in RSSIValues}

OnDataReceived ==
  \E data \in Packets, rssi \in RSSIValues, sizeOk \in BOOLEAN, ok \in BOOLEAN :
    /\ Deliverable(findTransmitterIndex(transmitters, data.id), rssi)
    /\ Receive(data, rssi, sizeOk, ok)

\* One pass of loop() without a client request, d ms after the pass before:
\* the sweep and the end of the cooldown.
LoopAfter(d) ==
  /\ Install(loopBody(Program, now + d))
  /\ now' = now + d
  /\ lastEvent' = NoEvent
  /\ UNCHANGED << commitsOk, candSince, runStart, runLen, resetAt >>

Loop == now + TickLength <= MaxTime /\ LoopAfter(TickLength)

\* server.handleClient() serves /api/reset; ok: whether its commit succeeds.
ResetWith(ok) ==
  /\ Install(handleResetAPI(Program, now, ok))
  /\ now' = now
  /\ commitsOk' = (commitsOk /\ ok)
  /\ resetAt' = now
  /\ lastEvent' = [kind |-> "reset", index |-> -1, value |-> gameState.totalScore]
  /\ UNCHANGED << candSince, runStart, runLen >>

Reset == \E ok \in BOOLEAN : ResetWith(ok)

Next == OnDataReceived \/ Loop \/ Reset \/ Restart

Spec == Init /\ [][Next]_vars

\* ============================================================ properties
FoundSet == {i \in TxIdx : gameState.foundTransmitters[i]}

\* The sum of the points transmitterList gives the transmitters of S.
RECURSIVE RegistrySum(_)
RegistrySum(S) ==
  IF S = {} THEN 0
  ELSE LET i == CHOOSE j \in S : TRUE
       IN  transmitterList[i + 1].points + RegistrySum(S \ {i})

\* A step in which the callback runs for a well-formed packet that names
\* transmitter i.
SampleFor(i) ==
  \E data \in Packets, rssi \in RSSIValues, ok \in BOOLEAN :
    /\ findTransmitterIndex(transmitters, data.id) = i
    /\ Receive(data, rssi, TRUE, ok)

\* Transmitter i meets every precondition of a discovery now.
MeetsNow(i) == MeetsAll(Program, i, now)

\* The step makes transmitter i found.
BecomesFound(i) ==
  ~gameState.foundTransmitters[i] /\ gameState'.foundTransmitters[i]

OutOfRange(score) == score < 0 \/ score > SCORE_UPPER_BOUND

\* C1: in every reachable state totalScore is the sum, over the transmitters
\* whose found flag is set, of the points the registry list gives them.
C1_ScoreIsRegistrySum == gameState.totalScore = RegistrySum(FoundSet)

\* C2: a sample for a transmitter that is already found changes neither
\* totalScore nor foundCount; that is, no step that changes one of them while
\* transmitter i is found is a sample for i.
C2_FoundOnce ==
  [][\A i \in TxIdx :
       ( /\ gameState.foundTransmitters[i]
         /\ \/ gameState'.totalScore # gameState.totalScore
            \/ gameState'.foundCount # gameState.foundCount )
       => ~SampleFor(i)]_vars

\* A found transmitter has just been sampled again: the sample cleared the
\* timer its discovery had left, and the score is that of the one discovery.
C2_FoundSampledAgain ==
  \E i \in TxIdx :
    /\ gameState.foundTransmitters[i]
    /\ transmitters[i].isActive
    /\ transmitters[i].lastSeen = now
    /\ transmitters[i].signalCount > MIN_SIGNAL_COUNT
    /\ discoveryTimers[i] = 0
    /\ gameState.totalScore = transmitterList[i + 1].points
    /\ gameState.foundCount = 1

\* C3 (as the code has it): a sample makes a transmitter found if and only if
\* the sample meets every precondition (signalCount at least MIN_SIGNAL_COUNT,
\* strength, range, discovery not suppressed) and the unbroken run of samples
\* meeting every precondition began at least SIGNAL_STABILITY_PERIOD earlier.
\* (Stated as: no sample for a transmitter not yet found is a step at which
\* the two sides differ.)
C3_FoundIffCandidacyLasted ==
  [][\A i \in TxIdx :
       ( /\ ~gameState.foundTransmitters[i]
         /\ gameState'.foundTransmitters[i] #
              ( /\ MeetsNow(i)'
                /\ candSince[i] # -1
                /\ now - candSince[i] >= SIGNAL_STABILITY_PERIOD ) )
       => ~SampleFor(i)]_vars

\* C3 (as stated): a sample makes a transmitter found if and only if it
\* completes a run of at least MIN_SIGNAL_COUNT consecutive samples, each
\* strong and near enough and outside the cooldown, that spans at least
\* SIGNAL_STABILITY_PERIOD.
C3_FoundIffQualifyingRun ==
  [][\A i \in TxIdx :
       ( /\ ~gameState.foundTransmitters[i]
         /\ gameState'.foundTransmitters[i] #
              ( /\ runLen'[i] >= MIN_SIGNAL_COUNT
                /\ runStart'[i] # -1
                /\ now - runStart'[i] >= SIGNAL_STABILITY_PERIOD ) )
       => ~SampleFor(i)]_vars

\* A transmitter has just been discovered by a sample that closed a candidacy
\* of a full stability period.
C3_Discovered ==
  \E i \in TxIdx :
    /\ gameState.foundTransmitters[i]
    /\ transmitters[i].lastSeen = now
    /\ candSince[i] # -1
    /\ discoveryTimers[i] = candSince[i]
    /\ now - candSince[i] >= SIGNAL_STABILITY_PERIOD
    /\ ~discoveryInProgress[i]

\* C4: a sample evaluated for a transmitter with a candidacy in progress, at
\* which the count, the strength or the range precondition is false, ends the
\* candidacy at that sample (flag cleared, timer zeroed); and whenever a sample
\* makes a transmitter found, the candidacy it closes began after the last
\* sample that failed a precondition and lasted SIGNAL_STABILITY_PERIOD.
\* (Stated as: no sample for the transmitter is a step at which a candidacy
\* survives a failed precondition, or at which the transmitter becomes found
\* without such a candidacy.)
C4_DisqualifiedCandidacyDiscarded ==
  [][\A i \in TxIdx :
       ( \/ /\ discoveryInProgress[i]
            /\ ~gameState.foundTransmitters[i]
            /\ ~gameState.resetMode
            /\ ~DiscoverySuppressed(gameState, now)
            /\ ~MeetsNow(i)'
            /\ (discoveryInProgress'[i] \/ discoveryTimers'[i] # 0)
         \/ /\ BecomesFound(i)
            /\ ~( /\ discoveryInProgress[i]
                  /\ candSince[i] # -1
                  /\ discoveryTimers[i] = candSince[i]
                  /\ now - candSince[i] >= SIGNAL_STABILITY_PERIOD ) )
       => ~SampleFor(i)]_vars

\* A sample has just ended a candidacy that had been in progress.
C4_CandidacyDiscarded ==
  /\ lastEvent.kind = "discarded"
  /\ lastEvent.value >= RESET_COOLDOWN
  /\ ~discoveryInProgress[lastEvent.index]
  /\ discoveryTimers[lastEvent.index] = 0
  /\ ~gameState.foundTransmitters[lastEvent.index]

\* The memory a reset leaves: no score, no count, no registered transmitter found.
ClearedInMemory(gs) ==
  /\ gs.totalScore = 0
  /\ gs.foundCount = 0
  /\ \A i \in TxIdx : ~gs.foundTransmitters[i]

ClearedOnFlash(record) ==
  /\ record.score = 0
  /\ \A i \in TxIdx : ~record.found[i]

\* C5 (as the code has it): right after a reset the score and the count are 0
\* and no transmitter is found in memory, and the committed record says the
\* same if the commit of that reset succeeded.
C5_ResetClears ==
  [][\A ok \in BOOLEAN :
       ResetWith(ok) =>
         /\ ClearedInMemory(gameState')
         /\ ok => ClearedOnFlash(flash')]_vars

\* C5 (as stated): right after a reset the score and the count are 0 and no
\* transmitter is found, in memory and in the committed record.
C5_ResetClearsDurably ==
  [][Reset => (ClearedInMemory(gameState') /\ ClearedOnFlash(flash'))]_vars

\* A reset of a game with points on the board has just run and committed.
C5_ResetOfScoredGame ==
  /\ lastEvent.kind = "reset"
  /\ lastEvent.value > 0
  /\ commitsOk
  /\ resetAt = now
  /\ ClearedInMemory(gameState)
  /\ ClearedOnFlash(flash)

\* C6: while less than RESET_COOLDOWN has passed since a reset, no transmitter
\* is found and totalScore is 0, whatever samples and passes of loop() came
\* in between.
C6_NoDiscoveryInCooldown ==
  (resetAt # -1 /\ now - resetAt < RESET_COOLDOWN) =>
    (gameState.totalScore = 0 /\ \A i \in TxIdx : ~gameState.foundTransmitters[i])

\* A strong sample has just arrived inside the cooldown, some time after the
\* reset, and found nothing.
C6_SampleInCooldown ==
  /\ lastEvent.kind = "dropped"
  /\ lastEvent.value * 10 >= DISCOVERY_RSSI_THRESHOLD
  /\ resetAt # -1
  /\ now - resetAt > 0
  /\ now - resetAt < RESET_COOLDOWN
  /\ FoundSet = {}

\* C7: a pass of loop() leaves every transmitter whose last sample is more
\* than SIGNAL_TIMEOUT old inactive, at the unknown distance and with
\* signalCount 0.
C7_TimedOutSwept ==
  [][Loop =>
       \A i \in TxIdx :
         (now' - transmitters[i].lastSeen > SIGNAL_TIMEOUT) =>
           /\ ~transmitters'[i].isActive
           /\ transmitters'[i].distance = UNKNOWN_DISTANCE
           /\ transmitters'[i].signalCount = 0]_vars

\* A transmitter that had been heard has been swept: its last sample is more
\* than SIGNAL_TIMEOUT old and it is back to inactive, unknown, zero.
C7_Swept ==
  \E i \in TxIdx :
    /\ transmitters[i].lastSeen > 0
    /\ now - transmitters[i].lastSeen > SIGNAL_TIMEOUT
    /\ transmitters[i].rssi # UNSET_RSSI
    /\ ~transmitters[i].isActive
    /\ transmitters[i].distance = UNKNOWN_DISTANCE
    /\ transmitters[i].signalCount = 0

\* C8: while every commit since power-up has succeeded, the committed record
\* holds the score and the flags of memory, and loading it gives back that
\* score and those flags, with foundCount the number of flags set.
C8_ProgressSurvivesPowerCycle ==
  commitsOk =>
    /\ flash.score = gameState.totalScore
    /\ flash.found = gameState.foundTransmitters
    /\ LET reloaded == loadGameState(flash, TRUE).gs
       IN  /\ reloaded.totalScore = gameState.totalScore
           /\ reloaded.foundTransmitters = gameState.foundTransmitters
           /\ reloaded.foundCount =
                Cardinality({i \in TxIdx : reloaded.foundTransmitters[i]})

BlankInMemory(gs) ==
  /\ gs.totalScore = 0
  /\ gs.foundCount = 0
  /\ \A s \in Slots : ~gs.foundTransmitters[s]

BlankOnFlash(record) ==
  /\ record.score = 0
  /\ \A s \in Slots : ~record.found[s]

\* C9 (as the code has it): after a power-up that read a score below 0 or
\* above the bound, the score and the count are 0 and every flag is false, and
\* the committed record says the same if the commit of that load succeeded.
C9_CorruptRecordReinitialised ==
  (lastEvent.kind = "setup" /\ OutOfRange(lastEvent.value)) =>
    /\ BlankInMemory(gameState)
    /\ commitsOk => BlankOnFlash(flash)

\* C9 (as stated): after such a power-up the score and the count are 0, every
\* flag is false, and the committed record says the same.
C9_CorruptRecordReinitialisedDurably ==
  (lastEvent.kind = "setup" /\ OutOfRange(lastEvent.value)) =>
    (BlankInMemory(gameState) /\ BlankOnFlash(flash))

\* A power-up has just read a negative score, reinitialised and committed.
C9_CorruptRecordRead ==
  /\ lastEvent.kind = "setup"
  /\ lastEvent.value < 0
  /\ commitsOk
  /\ BlankInMemory(gameState)
  /\ BlankOnFlash(flash)

\* ---------------------------------------------- the steady 200 ms scenario
\* The first transmitter is heard every SampleSpacing ms, always strong, from
\* some moment after the start-up window on; loop() runs in between.
SampleSpacing == SIGNAL_STABILITY_PERIOD \div 25
SteadyRSSI == {-35, -40}
SteadyStarts == {RESET_COOLDOWN, RESET_COOLDOWN + SampleSpacing}
SteadyEnd == RESET_COOLDOWN + ScenarioSamples * SampleSpacing

InitSteady ==
  \E committed \in {r \in FlashImages : r.score <= 0}, ok \in BOOLEAN,
     t \in SteadyStarts :
    PowerUp(committed, ok, t)

HeardNow == transmitters[0].isActive /\ transmitters[0].lastSeen = now

SampleSteady ==
  /\ ~HeardNow
  /\ \E rssi \in SteadyRSSI, ok \in BOOLEAN :
       Receive(GenuinePacket(0), rssi, TRUE, ok)

PassSteady ==
  /\ HeardNow
  /\ now + SampleSpacing <= SteadyEnd
  /\ LoopAfter(SampleSpacing)

NextSteady == SampleSteady \/ PassSteady

SpecSteady == InitSteady /\ [][NextSteady]_vars

\* Samples delivered so far in the scenario.
SteadyCount ==
  IF runStart[0] = -1 THEN 0
  ELSE (transmitters[0].lastSeen - runStart[0]) \div SampleSpacing + 1

\* The sample that closes the first candidacy: MIN_SIGNAL_COUNT samples to
\* open it, then a stability period of samples.
SteadyDiscoveryAt ==
  MIN_SIGNAL_COUNT + SIGNAL_STABILITY_PERIOD \div SampleSpacing

Runtime(e) ==
  [rssi |-> e.rssi, smoothedRSSI |-> e.smoothedRSSI, distance |-> e.distance,
   lastSeen |-> e.lastSeen, isActive |-> e.isActive,
   signalCount |-> e.signalCount, angle |-> e.angle]

\* C11 (as stated): immediately after a reset, every transmitter's rssi,
\* smoothedRSSI, distance, lastSeen, isActive, signalCount and angle are the
\* values initializeTransmitterDB gives them.
C11_ResetRestoresRuntime ==
  lastEvent.kind = "reset" =>
    \A i \in TxIdx : Runtime(transmitters[i]) = Runtime(initializeTransmitterDB[i])

\* Some transmitter's found flag is set before the step and clear after it.
FlagLost ==
  \E i \in TxIdx :
    gameState.foundTransmitters[i] /\ ~gameState'.foundTransmitters[i]

NeverSampled(e) ==
  /\ e.lastSeen = 0
  /\ e.signalCount = 0
  /\ e.rssi = UNSET_RSSI
  /\ e.smoothedRSSI = UNSET_RSSI * 10
  /\ e.distance = UNKNOWN_DISTANCE

\* C13 (as the code has it), with now the millis() of the latest sweep: an
\* active transmitter was sampled at most SIGNAL_TIMEOUT ago, and an inactive
\* one either was last sampled more than SIGNAL_TIMEOUT ago or has not been
\* sampled since setup() or the last reset.
C13_ActiveOnlyIfRecent ==
  \A i \in TxIdx :
    /\ transmitters[i].isActive => now - transmitters[i].lastSeen <= SIGNAL_TIMEOUT
    /\ ~transmitters[i].isActive =>
         \/ now - transmitters[i].lastSeen > SIGNAL_TIMEOUT
         \/ NeverSampled(transmitters[i])

\* C13 (as stated): isActive holds exactly when now - lastSeen is at most
\* SIGNAL_TIMEOUT.
C13_ActiveIffRecent ==
  \A i \in TxIdx :
    transmitters[i].isActive <=> now - transmitters[i].lastSeen <= SIGNAL_TIMEOUT

\* A sweep has just left a transmitter active that was sampled exactly
\* SIGNAL_TIMEOUT ago, next to one that was never sampled.
C13_ActiveAtTheTimeout ==
  /\ transmitters[0].isActive
  /\ now - transmitters[0].lastSeen = SIGNAL_TIMEOUT
  /\ ~transmitters[1].isActive
  /\ NeverSampled(transmitters[1])

\* ------------------------------------------------- packets that are dropped
\* The scenario for packets the callback does not handle: the program as in
\* Spec up to StrayEnd, with each packet of the wrong size or of an unknown
\* id noted in lastEvent.
StrayEnd == SIGNAL_STABILITY_PERIOD + TickLength

\* A packet with data_len # sizeof(SignalData), or with an id that
\* findTransmitterIndex does not know, outside the reset cooldown.
ReceiveStray(data, rssi, sizeOk) ==
  /\ ~gameState.resetMode
  /\ ~sizeOk \/ findTransmitterIndex(transmitters, data.id) < 0
  /\ Install(OnDataReceivedBody(Program, data, rssi, sizeOk, now, TRUE))
  /\ now' = now
  /\ lastEvent' = [kind |-> IF sizeOk THEN "unknown" ELSE "malformed",
                   index |-> -1, value |-> rssi]
  /\ UNCHANGED << commitsOk, candSince, runStart, runLen, resetAt >>

Stray ==
  \E data \in Packets, rssi \in RSSIValues, sizeOk \in BOOLEAN :
    ReceiveStray(data, rssi, sizeOk)

Handled ==
  \E data \in Packets, rssi \in RSSIValues, ok \in BOOLEAN :
    /\ findTransmitterIndex(transmitters, data.id) >= 0
    /\ Deliverable(findTransmitterIndex(transmitters, data.id), rssi)
    /\ Receive(data, rssi, TRUE, ok)

LoopStray == now + TickLength <= StrayEnd /\ LoopAfter(TickLength)

NextStray == Stray \/ Handled \/ LoopStray \/ Reset

SpecStray == Init /\ [][NextStray]_vars

\* The program's own variables.
ProgramVars ==
  << transmitters, gameState, discoveryTimers, discoveryInProgress, flash >>

\* C14: a packet of the wrong size or of an unknown id leaves the
\* transmitter entries, the discovery timers and their flags, the game state
\* and the EEPROM record as they were.
C14_StrayPacketChangesNothing ==
  [][ProgramVars' # ProgramVars => ~Stray]_vars

\* A packet of the wrong size carrying the id of the first transmitter has
\* just been dropped while that transmitter's candidacy was open, and so has
\* not touched it.
C14_MalformedDuringCandidacy ==
  /\ lastEvent.kind = "malformed"
  /\ discoveryInProgress[0]
  /\ discoveryTimers[0] = now
  /\ transmitters[0].lastSeen = now
  /\ transmitters[0].signalCount = MIN_SIGNAL_COUNT

\* C15: while resetMode is set, a packet, whatever id it carries, leaves the
\* transmitter entries, the discovery timers and their flags, the game state
\* and the EEPROM record as they were.
C15_CooldownSampleChangesNothing ==
  [][(gameState.resetMode /\ ProgramVars' # ProgramVars) => ~OnDataReceived]_vars

\* A strong sample of the first transmitter has just been dropped in the
\* cooldown of a reset that interrupted its candidacy: the entry is still as
\* the reset left it.
C15_SampleDroppedAfterReset ==
  /\ lastEvent.kind = "dropped"
  /\ lastEvent.index = 0
  /\ lastEvent.value > UNSET_RSSI
  /\ gameState.resetMode
  /\ discoveryInProgress[0]
  /\ NeverSampled(transmitters[0])
  /\ ~transmitters[0].isActive

\* ------------------------------------------------- the end of the cooldown
\* The program with loop() called again and again, and with the last reset
\* issued early enough for the passes that end its cooldown to fit before
\* MaxTime.
ResetEarly == now + RESET_COOLDOWN + TickLength <= MaxTime /\ Reset

NextCooldown == OnDataReceived \/ Loop \/ ResetEarly \/ Restart

SpecCooldown == Init /\ [][NextCooldown]_vars /\ WF_vars(Loop)

\* resetMode is set before the step and clear after it.
CooldownEnds == gameState.resetMode /\ ~gameState'.resetMode

\* The step is a pass of loop() at which more than RESET_COOLDOWN has passed
\* since lastResetTime.
PassAfterCooldown ==
  /\ now' > now
  /\ now' - gameState.lastResetTime > RESET_COOLDOWN

\* C16: once set, resetMode is cleared again; between power-ups the step that
\* clears it is a pass of loop() more than RESET_COOLDOWN after
\* lastResetTime, and every such pass clears it.
C16_CooldownEndsAtFirstLatePass ==
  /\ gameState.resetMode ~> ~gameState.resetMode
  /\ [][/\ CooldownEnds => ((Loop /\ PassAfterCooldown) \/ Restart)
        /\ (gameState.resetMode /\ PassAfterCooldown) => ~gameState'.resetMode]_vars

\* The pass of loop() that ended a cooldown has just run: the reset is more
\* than RESET_COOLDOWN old, and one pass earlier it was not.
C16_CooldownJustEnded ==
  /\ resetAt # -1
  /\ gameState.lastResetTime = resetAt
  /\ ~gameState.resetMode
  /\ now - resetAt > RESET_COOLDOWN
  /\ now - TickLength - resetAt <= RESET_COOLDOWN
  /\ lastEvent.kind = "none"

\* ------------------------------------------------------------ the snapshot
\* What GET /api/transmitters answers in the current state.
Snapshot == handleTransmittersAPI(Program, now)

\* The snapshot has an object for transmitter i.
Listed(i) ==
  \E k \in 1..Len(Snapshot.transmitters) :
    Snapshot.transmitters[k].id = transmitters[i].id

\* C17: the snapshot lists a transmitter exactly when it is active and
\* resetMode is clear, lists nothing while resetMode is set, and its
\* activeCount is the number of objects listed.
C17_SnapshotListsActive ==
  /\ \A i \in TxIdx :
       Listed(i) <=> (transmitters[i].isActive /\ ~gameState.resetMode)
  /\ gameState.resetMode => Snapshot.transmitters = << >>
  /\ Snapshot.activeCount = Len(Snapshot.transmitters)

\* The first transmitter is active and found, the second is not active, and
\* the snapshot is the one object of the first.
C17_OneOfTwoListed ==
  /\ transmitters[0].isActive
  /\ ~transmitters[1].isActive
  /\ ~gameState.resetMode
  /\ gameState.foundTransmitters[0]
  /\ Snapshot.transmitters = << snapshotObject(transmitters[0]) >>
  /\ Snapshot.activeCount = 1

\* ------------------------------------------------------------ the registry
\* C18 (as stated): every entry's id, name and points are those
\* transmitterList gives it.
C18_RegistryAsConfigured ==
  \A i \in TxIdx :
    /\ transmitters[i].id = transmitterList[i + 1].id
    /\ transmitters[i].name = transmitterList[i + 1].name
    /\ transmitters[i].points = transmitterList[i + 1].points

\* ------------------------------------------- the README's discovery range
\* "Points are awarded when a transmitter is found (within 5m range)".
README_RANGE == 5000

\* The steady scenario with the first transmitter one to two metres away:
\* heard every SampleSpacing ms from the end of the start-up window on, at
\* readings that put it beyond DISCOVERY_RANGE and within README_RANGE.
MidRangeRSSI == {-55, -60}

InitMidRange ==
  \E committed \in {r \in FlashImages : r.score <= 0}, ok \in BOOLEAN :
    PowerUp(committed, ok, RESET_COOLDOWN)

SampleMidRange ==
  /\ ~HeardNow
  /\ \E rssi \in MidRangeRSSI, ok \in BOOLEAN :
       Receive(GenuinePacket(0), rssi, TRUE, ok)

NextMidRange == SampleMidRange \/ PassSteady

SpecMidRange == InitMidRange /\ [][NextMidRange]_vars

\* Samples delivered so far in the scenario.
MidRangeCount ==
  IF transmitters[0].isActive
    THEN (transmitters[0].lastSeen - RESET_COOLDOWN) \div SampleSpacing + 1
    ELSE 0

\* Every sample of the scenario leaves the transmitter strong enough, beyond
\* DISCOVERY_RANGE and within README_RANGE.
MidRangeScenario ==
  transmitters[0].isActive =>
    /\ transmitters[0].smoothedRSSI >= DISCOVERY_RSSI_THRESHOLD
    /\ transmitters[0].distance > DISCOVERY_RANGE
    /\ transmitters[0].distance <= README_RANGE

\* C19 (as stated): a transmitter whose samples have been strong enough and
\* within README_RANGE for the stability period after MIN_SIGNAL_COUNT
\* samples is found and its points are on the board.
C19_FoundWithinFiveMetres ==
  (/\ MidRangeCount >= SteadyDiscoveryAt
   /\ transmitters[0].smoothedRSSI >= DISCOVERY_RSSI_THRESHOLD
   /\ transmitters[0].distance <= README_RANGE)
    => (/\ gameState.foundTransmitters[0]
        /\ gameState.totalScore = transmitterList[1].points)

\* ------------------------------------------------------ a failed commit
\* The record a successful commit leaves for game state gs.
Committed(gs) == [score |-> gs.totalScore, found |-> gs.foundTransmitters]

\* The program state but for the EEPROM record.
Memory(p) == << p.tx, p.gs, p.timers, p.inProgress >>

\* The step is the callback for a sample that closes a candidacy, with the
\* commit of its saveGameState() succeeding (ok) or failing; it leaves
\* memory as the discovery sets it.
DiscoveryWith(ok) ==
  /\ ~gameState.resetMode
  /\ \E i \in TxIdx :
       /\ discoveryInProgress[i]
       /\ now - discoveryTimers[i] >= SIGNAL_STABILITY_PERIOD
  /\ \E data \in Packets, rssi \in RSSIValues :
       LET index == findTransmitterIndex(transmitters, data.id)
       IN  /\ index >= 0
           /\ DiscoverySaves(updateTransmitterData(Program, index, rssi, data, now),
                             index, now)
           /\ Receive(data, rssi, TRUE, ok)

\* What a sample that closes a candidacy, or a reset, does to memory when its
\* commit succeeds.
MemoryAsSet ==
  \/ \E data \in Packets, rssi \in RSSIValues :
       /\ findTransmitterIndex(transmitters, data.id) >= 0
       /\ Memory(Program)' =
            Memory(OnDataReceivedBody(Program, data, rssi, TRUE, now, TRUE))
       /\ gameState'.foundCount = gameState.foundCount + 1
  \/ Memory(Program)' = Memory(handleResetAPI(Program, now, TRUE))

\* C20: a discovery or a reset whose commit fails leaves the EEPROM record as
\* it was and memory exactly as with a successful commit; one whose commit
\* succeeds leaves the record equal to the score and flags in memory,
\* whatever failed before.
C20_FailedCommitKeepsMemory ==
  [][/\ (now' = now /\ (DiscoveryWith(FALSE) \/ ResetWith(FALSE)))
          => (flash' = flash /\ MemoryAsSet)
     /\ (now' = now /\ flash' # Committed(gameState'))
          => ~(DiscoveryWith(TRUE) \/ ResetWith(TRUE))]_vars

\* A commit has failed since power-up, the first transmitter was found after
\* a reset, and the record again says what memory says.
C20_RecordBackInLine ==
  /\ ~commitsOk
  /\ resetAt # -1
  /\ FoundSet = {0}
  /\ gameState.totalScore = transmitterList[1].points
  /\ flash = Committed(gameState)

\* ------------------------------------------------------------ the filter
\* The step is the callback, outside the cooldown, for a well-formed packet
\* of transmitter i read at rssi.
AcceptedAt(i, rssi) ==
  /\ ~gameState.resetMode
  /\ \E data \in Packets, ok \in BOOLEAN :
       /\ findTransmitterIndex(transmitters, data.id) = i
       /\ Receive(data, rssi, TRUE, ok)

\* C21: the first sample accepted for a transmitter since setup() or the
\* last reset leaves its smoothedRSSI at exactly the reading of that sample.
C21_FirstSampleSetsFilter ==
  [][\A i \in TxIdx, rssi \in RSSIValues :
       (/\ NeverSampled(transmitters[i])
        /\ now' = now
        /\ transmitters'[i].smoothedRSSI # rssi * 10)
         => ~AcceptedAt(i, rssi)]_vars

\* The first sample since a reset has just been handled: strong, and the
\* filter sits on it.
C21_FirstSampleAfterReset ==
  /\ resetAt # -1
  /\ ~gameState.resetMode
  /\ transmitters[0].signalCount = 1
  /\ transmitters[0].lastSeen = now
  /\ transmitters[0].rssi > UNSET_RSSI
  /\ transmitters[0].smoothedRSSI = transmitters[0].rssi * 10

\* --------------------------------------------------- the distance estimate
\* The scenario for the estimator: after the start-up window the first
\* transmitter is sampled up to EstimatorSamples times at readings from
\* -120 to 0 dBm, which takes the filter, and with it the estimate's
\* argument, through that range.
WideRSSI == {5 * k - 120 : k \in 0..24}

InitEstimator ==
  \E committed \in {r \in FlashImages : r.score = 0} :
    PowerUp(committed, TRUE, RESET_COOLDOWN)

SampleWide ==
  /\ transmitters[0].signalCount < EstimatorSamples
  /\ \E rssi \in WideRSSI : Receive(GenuinePacket(0), rssi, TRUE, TRUE)

NextEstimator == SampleWide

SpecEstimator == InitEstimator /\ [][NextEstimator]_vars

\* C22: after every accepted sample the transmitter's distance is at least
\* 0.5 m and at most 50 m.
C22_DistanceWithinLimits ==
  transmitters[0].isActive =>
    /\ transmitters[0].distance >= MIN_DISTANCE
    /\ transmitters[0].distance <= MAX_DISTANCE

\* A sample has left the filter so weak that the estimate sits on the upper
\* limit.
C22_HeldAtUpperLimit ==
  /\ transmitters[0].isActive
  /\ transmitters[0].smoothedRSSI < UNSET_RSSI * 10
  /\ transmitters[0].distance = MAX_DISTANCE

\* smoothedRSSI from -120.0 to 0.0 dBm in steps of half a dB, in tenths.
SmoothedValues == {5 * k - 1200 : k \in 0..240}

\* C23: against every other smoothedRSSI the estimate of the sampled
\* transmitter is in order: no stronger value has a greater estimate, no
\* weaker value a smaller one.
C23_EstimateFallsWithStrength ==
  transmitters[0].isActive =>
    \A s \in SmoothedValues :
      /\ s >= transmitters[0].smoothedRSSI =>
           estimateDistance(s) <= transmitters[0].distance
      /\ s <= transmitters[0].smoothedRSSI =>
           estimateDistance(s) >= transmitters[0].distance

\* A sample has left the estimate strictly between its limits, so that
\* there are values with a greater and with a smaller estimate to compare.
C23_BetweenTheLimits ==
  /\ transmitters[0].isActive
  /\ transmitters[0].signalCount = EstimatorSamples
  /\ transmitters[0].distance > MIN_DISTANCE
  /\ transmitters[0].distance < MAX_DISTANCE
  /\ \E s \in SmoothedValues : estimateDistance(s) < transmitters[0].distance
  /\ \E s \in SmoothedValues : estimateDistance(s) > transmitters[0].distance

\* ---------------------------------------------- a record from elsewhere
\* The program started on a record it did not write itself: a score in
\* range, the first transmitter found, and a flag set in a slot beyond
\* transmitterCount.
ForeignRecord ==
  [score |-> transmitterList[1].points,
   found |-> [s \in Slots |-> s = 0 \/ s = transmitterCount]]

InitForeignRecord == \E ok \in BOOLEAN : PowerUp(ForeignRecord, ok, 0)

SpecForeignRecord == InitForeignRecord /\ [][Next]_vars

\* What GET /api/score answers in the current state.
Score == handleScoreAPI(Program, now)

\* C24 (as stated): foundCount is the number of transmitters the score
\* query reports as found.
C24_FoundCountIsFoundSetSize ==
  /\ gameState.foundCount = Cardinality(FoundSet)
  /\ Score.foundCount = Len(Score.foundTransmitters)

\* C25 (as stated): totalScore is never negative.
C25_ScoreNonNegative == gameState.totalScore >= 0

\* ------------------------------------------------------------ the queries
\* The program of Spec up to QueryEnd with the display client's GET requests
\* served and noted in lastEvent.
QueryEnd == SIGNAL_STABILITY_PERIOD

Query(path) ==
  /\ Install(handleClientGet(Program, path, now).p)
  /\ now' = now
  /\ lastEvent' = [kind |-> path, index |-> -1, value |-> 0]
  /\ UNCHANGED << commitsOk, candSince, runStart, runLen, resetAt >>

Queries == \E path \in QueryPaths : Query(path)

LoopQueries == now + TickLength <= QueryEnd /\ LoopAfter(TickLength)

NextQueries == Queries \/ OnDataReceived \/ LoopQueries \/ Reset

SpecQueries == Init /\ [][NextQueries]_vars

\* C26: serving the snapshot, score, status or download query leaves the
\* transmitter entries, the discovery timers and their flags, the game state
\* and the EEPROM record as they were.
C26_QueriesChangeNothing ==
  [][ProgramVars' # ProgramVars => ~Queries]_vars

\* The results have just been downloaded from a receiver with a transmitter
\* found, another active and in candidacy, and a committed record.
C26_DownloadMidGame ==
  /\ lastEvent.kind = "download"
  /\ gameState.foundCount > 0
  /\ transmitters[0].isActive
  /\ discoveryInProgress[0]
  /\ flash.score > 0
  /\ Len(handleDownloadAPI(Program, now).foundTransmitters) = 1
  /\ Len(handleDownloadAPI(Program, now).activeTransmitters) = 1

\* ------------------------------------------------- candidacies and reset
\* C27 (as stated): right after a reset no transmitter has a candidacy in
\* progress and every discovery timer is 0.
C27_ResetClearsCandidacies ==
  lastEvent.kind = "reset" =>
    \A i \in TxIdx : ~discoveryInProgress[i] /\ discoveryTimers[i] = 0

\* C28 (as stated): a transmitter with a candidacy in progress meets every
\* precondition of discovery in the current state.
C28_CandidacyOnlyWhileQualified ==
  \A i \in TxIdx :
    discoveryInProgress[i] =>
      /\ transmitters[i].signalCount >= MIN_SIGNAL_COUNT
      /\ transmitters[i].smoothedRSSI >= DISCOVERY_RSSI_THRESHOLD
      /\ transmitters[i].distance <= DISCOVERY_RANGE
      /\ ~gameState.foundTransmitters[i]
      /\ ~DiscoverySuppressed(gameState, now)

\* The sweep has timed out a transmitter and its candidacy is still open.
SweptInCandidacy ==
  /\ resetAt = -1
  /\ ~transmitters[0].isActive
  /\ transmitters[0].signalCount = 0
  /\ transmitters[0].distance = UNKNOWN_DISTANCE
  /\ discoveryInProgress[0]
  /\ now - discoveryTimers[0] > SIGNAL_TIMEOUT

\* C29: in every reachable state a transmitter whose found flag is set has
\* no candidacy in progress. Every sample leaves the state it produces
\* within this invariant, so no sample of a found transmitter opens a
\* candidacy; the flag is cleared by a reset alone.
C29_FoundHasNoCandidacy ==
  \A i \in TxIdx :
    gameState.foundTransmitters[i] => ~discoveryInProgress[i]

\* A sample of a found transmitter that meets every other precondition has
\* just been evaluated outside the cooldown, and has emptied the timer.
C29_FoundSampledAgain ==
  /\ gameState.foundTransmitters[0]
  /\ transmitters[0].lastSeen = now
  /\ transmitters[0].signalCount >= MIN_SIGNAL_COUNT
  /\ transmitters[0].smoothedRSSI >= DISCOVERY_RSSI_THRESHOLD
  /\ transmitters[0].distance <= DISCOVERY_RANGE
  /\ ~DiscoverySuppressed(gameState, now)
  /\ discoveryTimers[0] = 0
  /\ ~discoveryInProgress[0]

\* The step turns transmitter i from active to inactive, or back.
Deactivated(i) == transmitters[i].isActive /\ ~transmitters'[i].isActive
Activated(i) == ~transmitters[i].isActive /\ transmitters'[i].isActive

\* C30 as stated: a transmitter turns from active to inactive in the sweep
\* of a loop pass alone, and from inactive to active in the callback for one
\* of its own samples alone.
C30_OnlySweepDeactivates ==
  [][\A i \in TxIdx :
       /\ Deactivated(i) => Loop
       /\ Activated(i) => SampleFor(i)]_vars

\* C30 as the code has it: a transmitter turns from active to inactive in
\* the sweep of a loop pass once its last sample is older than
\* SIGNAL_TIMEOUT, in a reset or when power is cycled, and in no other step;
\* it turns from inactive to active in the callback for one of its own
\* samples alone.
C30_OnlySweepOrResetDeactivates ==
  [][\A i \in TxIdx :
       /\ Deactivated(i) =>
            \/ Loop /\ now' - transmitters[i].lastSeen > SIGNAL_TIMEOUT
            \/ Reset
            \/ Restart
       /\ Activated(i) => SampleFor(i)]_vars

\* An active transmitter has just been made inactive by a reset, not by the
\* sweep: its last sample is younger than SIGNAL_TIMEOUT would allow.
C30_DeactivatedByReset ==
  /\ lastEvent.kind = "reset"
  /\ runLen[0] > 0
  /\ ~transmitters[0].isActive
  /\ transmitters[0].lastSeen = 0
  /\ now - runStart[0] <= SIGNAL_TIMEOUT

\* ------------------------------------------------- the filter's later steps
\* C31: a sample accepted for a transmitter that has been sampled since
\* setup() or the last reset leaves smoothedRSSI at
\* 0.2 * rssi + 0.8 * the previous smoothedRSSI, whatever the previous value
\* is, -100 included.
C31_LaterSamplesBlend ==
  [][\A i \in TxIdx, rssi \in RSSIValues :
       (/\ transmitters[i].signalCount > 0
        /\ now' = now
        /\ transmitters'[i].smoothedRSSI #
             RoundDiv(2 * (rssi * 10) + 8 * transmitters[i].smoothedRSSI, 10))
         => ~AcceptedAt(i, rssi)]_vars

\* A second sample has replaced a filter that sat at -100 after the first.
SentinelReadAsUnset ==
  /\ transmitters[0].signalCount = 2
  /\ transmitters[0].rssi > UNSET_RSSI
  /\ transmitters[0].smoothedRSSI = transmitters[0].rssi * 10

\* ------------------------------------------------ the handlers interleaved
\* The receive callback is handed to the Wi-Fi driver (esp_now_register_recv_cb)
\* and runs in the driver's task; loop(), and with it the sweep and the web
\* handlers, runs in the sketch's own task. The sketch has no lock, critical
\* section or queue between the two, so either may run while the other stands
\* between two of its statements. The scenario below looks at two such places:
\* the callback between the statements of a discovery, and the sweep between
\* reading millis() and testing the entries. Clean record, the first
\* transmitter at a strong reading, every commit succeeding.
PreemptionTime == 1

Ghosts == << commitsOk, candSince, runStart, runLen, resetAt >>

InitInterleaved ==
  PowerUp([score |-> 0, found |-> AllSlots(FALSE)], TRUE, 0)

\* A callback that runs from its first statement to its last.
SampleWhole ==
  /\ inFlight.callback = "none"
  /\ transmitters[0].signalCount < MaxRun
  /\ Receive(GenuinePacket(0), -35, TRUE, TRUE)

\* A callback runs up to the brink of line 394: past the test of resetMode,
\* updateTransmitterData and every test of checkForNewDiscovery, all passed.
CallbackReachesAward ==
  /\ inFlight.callback = "none"
  /\ ~gameState.resetMode
  /\ transmitters[0].signalCount < MaxRun
  /\ LET updated == updateTransmitterData(Program, 0, -35, GenuinePacket(0), now)
     IN  /\ DiscoverySaves(updated, 0, now)
         /\ transmitters' = updated.tx
  /\ inFlight' = [inFlight EXCEPT !.callback = "line394", !.index = 0]
  /\ lastEvent' = NoEvent
  /\ UNCHANGED << now, gameState, discoveryTimers, discoveryInProgress, flash,
                  Ghosts >>

\* gameState.foundTransmitters[index] = true;
MarksFound ==
  /\ inFlight.callback = "line394"
  /\ gameState' = [gameState EXCEPT !.foundTransmitters[inFlight.index] = TRUE]
  /\ inFlight' = [inFlight EXCEPT !.callback = "line395"]
  /\ lastEvent' = NoEvent
  /\ UNCHANGED << now, transmitters, discoveryTimers, discoveryInProgress,
                  flash, Ghosts >>

\* gameState.totalScore += transmitters[index].points;
AddsPoints ==
  /\ inFlight.callback = "line395"
  /\ gameState' = [gameState EXCEPT
                     !.totalScore = @ + transmitters[inFlight.index].points]
  /\ inFlight' = [inFlight EXCEPT !.callback = "line396"]
  /\ lastEvent' = NoEvent
  /\ UNCHANGED << now, transmitters, discoveryTimers, discoveryInProgress,
                  flash, Ghosts >>

\* gameState.foundCount++;
CountsFound ==
  /\ inFlight.callback = "line396"
  /\ gameState' = [gameState EXCEPT !.foundCount = @ + 1]
  /\ inFlight' = [inFlight EXCEPT !.callback = "line405"]
  /\ lastEvent' = NoEvent
  /\ UNCHANGED << now, transmitters, discoveryTimers, discoveryInProgress,
                  flash, Ghosts >>

\* saveGameState(); discoveryInProgress[index] = false; and the callback
\* returns.
SavesAndReturns ==
  /\ inFlight.callback = "line405"
  /\ flash' = saveGameState(gameState, flash, TRUE)
  /\ discoveryInProgress' =
       [discoveryInProgress EXCEPT ![inFlight.index] = FALSE]
  /\ inFlight' = [inFlight EXCEPT !.callback = "none", !.index = -1]
  /\ lastEvent' = NoEvent
  /\ UNCHANGED << now, transmitters, gameState, discoveryTimers, Ghosts >>

Callback ==
  CallbackReachesAward \/ MarksFound \/ AddsPoints \/ CountsFound
    \/ SavesAndReturns

\* A pass of loop() that runs from its first statement to its last.
LoopWhole == ~inFlight.sweeping /\ Loop

\* A pass of loop() runs up to unsigned long currentTime = millis().
SweepReadsClock ==
  /\ ~inFlight.sweeping
  /\ now + TickLength <= MaxTime
  /\ now' = now + TickLength
  /\ inFlight' = [inFlight EXCEPT !.sweeping = TRUE, !.currentTime = now']
  /\ lastEvent' = NoEvent
  /\ UNCHANGED << ProgramVars, Ghosts >>

\* The loop task stands still for PreemptionTime ms with currentTime read.
Preempted ==
  /\ inFlight.sweeping
  /\ now = inFlight.currentTime
  /\ now' = now + PreemptionTime
  /\ lastEvent' = NoEvent
  /\ UNCHANGED << ProgramVars, Ghosts, inFlight >>

\* The pass goes on: the for loop of updateTransmitterStatus() with the
\* currentTime read before, then the end of the cooldown at millis().
SweepFinishes ==
  /\ inFlight.sweeping
  /\ transmitters' = updateTransmitterStatus(transmitters, inFlight.currentTime)
  /\ gameState' = loopBody(Program, now).gs
  /\ inFlight' = [inFlight EXCEPT !.sweeping = FALSE, !.currentTime = 0]
  /\ lastEvent' = NoEvent
  /\ UNCHANGED << now, discoveryTimers, discoveryInProgress, flash, Ghosts >>

\* handleClient() serves /api/reset, wherever the callback stands.
ResetAnywhere == ~inFlight.sweeping /\ ResetWith(TRUE)

NextInterleaved ==
  SampleWhole \/ Callback \/ LoopWhole \/ SweepReadsClock \/ Preempted
    \/ SweepFinishes \/ ResetAnywhere

SpecInterleaved == InitInterleaved /\ [][NextInterleaved]_vars

\* C32: what any handler finds, whenever it runs, is a game in which each
\* discovery has happened whole or not at all: foundCount is the number of
\* found flags, totalScore the points of the transmitters found, and the
\* EEPROM record holds both.
C32_DiscoveryObservedWhole ==
  /\ gameState.foundCount = Cardinality(FoundSet)
  /\ gameState.totalScore = RegistrySum(FoundSet)
  /\ flash = Committed(gameState)

\* The callback stands between setting the found flag and adding the points.
FoundNotYetScored ==
  /\ inFlight.callback = "line395"
  /\ gameState.foundTransmitters[0]
  /\ gameState.totalScore = 0

\* C33: from a reset to the end of its cooldown no transmitter is found and
\* totalScore is 0, wherever a callback stood when the reset ran.
C33_NoDiscoveryOnTopOfReset ==
  (resetAt # -1 /\ DiscoverySuppressed(gameState, now))
    => (FoundSet = {} /\ gameState.totalScore = 0)

\* A reset has run while the callback stood before line 394, and the
\* callback has since run to its end.
AwardedAfterReset ==
  /\ resetAt # -1
  /\ gameState.resetMode
  /\ inFlight.callback = "none"
  /\ gameState.foundTransmitters[0]
  /\ gameState.totalScore = transmitterList[1].points
  /\ flash.score = transmitterList[1].points

\* C34: the sweep makes no transmitter inactive whose last sample is at most
\* SIGNAL_TIMEOUT old when the sweep ends.
C34_SweepSparesFreshSample ==
  [][\A i \in TxIdx :
       (Deactivated(i) /\ now' - transmitters[i].lastSeen <= SIGNAL_TIMEOUT)
         => ~(SweepFinishes \/ Loop)]_vars

\* The sweep has put out a transmitter sampled after currentTime was read.
SweptThoughJustHeard ==
  /\ ~inFlight.sweeping
  /\ ~transmitters[0].isActive
  /\ transmitters[0].lastSeen = now
  /\ transmitters[0].signalCount = 0
  /\ now % TickLength = PreemptionTime

\* ------------------------------------------------- a sample after a silence
\* Whole handlers only, and time that passes between two passes of loop(),
\* in its delay(10): a sample may come after the last sweep and before the
\* next. Clean record, the first transmitter at a strong reading.
InDelay ==
  /\ now % TickLength = 0
  /\ now' = now + PreemptionTime
  /\ lastEvent' = NoEvent
  /\ UNCHANGED << ProgramVars, Ghosts, inFlight >>

NextGap == SampleWhole \/ Loop \/ InDelay

SpecGap == InitInterleaved /\ [][NextGap]_vars

\* C35: no sample that comes more than SIGNAL_TIMEOUT after the sample before
\* it, for the same transmitter, makes that transmitter found.
C35_NoDiscoveryAfterSilence ==
  [][\A i \in TxIdx :
       (/\ BecomesFound(i)
        /\ now' = now
        /\ now - transmitters[i].lastSeen > SIGNAL_TIMEOUT)
         => ~SampleFor(i)]_vars

\* Found by a sample that came more than SIGNAL_TIMEOUT after the one before
\* it: the candidacy was opened by that earlier sample and no sample has come
\* between.
FoundAfterSilence ==
  /\ gameState.foundTransmitters[0]
  /\ transmitters[0].lastSeen = now
  /\ transmitters[0].lastSeen - discoveryTimers[0] > SIGNAL_TIMEOUT
  /\ transmitters[0].signalCount = MIN_SIGNAL_COUNT + 1

\* ---------------------------------------------- a long run of samples
\* The first transmitter is sampled at a strong reading as often as may be,
\* with loop passes and resets in between, so that signalCount reaches its
\* cap. Clean record, every commit succeeding.
SampleOnward ==
  /\ transmitters[0].signalCount <= SIGNAL_COUNT_CAP
  /\ Receive(GenuinePacket(0), -35, TRUE, TRUE)

NextLongRun == SampleOnward \/ Loop \/ ResetWith(TRUE)

SpecLongRun == InitInterleaved /\ [][NextLongRun]_vars

\* C36: between handlers, for every transmitter, isActive, a distance other
\* than 999.0 and a signalCount of at least 1 hold together or not at all,
\* and signalCount is at most 20.
C36_ActiveHasDistanceAndCount ==
  \A i \in TxIdx :
    /\ transmitters[i].isActive <=> transmitters[i].distance # UNKNOWN_DISTANCE
    /\ transmitters[i].isActive <=> transmitters[i].signalCount >= 1
    /\ transmitters[i].signalCount <= SIGNAL_COUNT_CAP

\* After a reset took it to zero, signalCount is back at the cap in a
\* transmitter sampled just now.
C36_HeldAtCap ==
  /\ resetAt # -1
  /\ transmitters[0].signalCount = SIGNAL_COUNT_CAP
  /\ transmitters[0].isActive
  /\ transmitters[0].distance # UNKNOWN_DISTANCE
  /\ transmitters[0].lastSeen = now

\* ------------------------------------------------------ inside the cooldown
\* C37: while resetMode is set every transmitter is inactive with signalCount
\* 0 and distance 999.0, totalScore is 0 and no transmitter is found.
C37_CooldownHoldsClearedGame ==
  gameState.resetMode =>
    /\ \A i \in TxIdx :
         /\ ~transmitters[i].isActive
         /\ transmitters[i].signalCount = 0
         /\ transmitters[i].distance = UNKNOWN_DISTANCE
    /\ gameState.totalScore = 0
    /\ FoundSet = {}

\* ------------------------------------------------------- just after setup()
\* C38: with no reset since setup() and resetMode clear, a sample that leaves
\* its transmitter meeting the other preconditions (signalCount, strength,
\* distance, not found) leaves it with a candidacy in progress or found,
\* however soon after setup() it comes.
C38_CandidacyFromPowerUp ==
  [][\A i \in TxIdx :
       (/\ resetAt = -1
        /\ ~gameState.resetMode
        /\ now' = now
        /\ ~discoveryInProgress'[i]
        /\ ~gameState'.foundTransmitters[i]
        /\ transmitters'[i].signalCount >= MIN_SIGNAL_COUNT
        /\ transmitters'[i].smoothedRSSI >= DISCOVERY_RSSI_THRESHOLD
        /\ transmitters'[i].distance <= DISCOVERY_RANGE)
         => ~SampleFor(i)]_vars

\* Within RESET_COOLDOWN of setup(), with no reset, a transmitter has just
\* been sampled and meets the other preconditions, and has no candidacy.
SuppressedAfterPowerUp ==
  /\ resetAt = -1
  /\ ~gameState.resetMode
  /\ now < RESET_COOLDOWN
  /\ transmitters[0].lastSeen = now
  /\ transmitters[0].signalCount >= MIN_SIGNAL_COUNT
  /\ transmitters[0].smoothedRSSI >= DISCOVERY_RSSI_THRESHOLD
  /\ transmitters[0].distance <= DISCOVERY_RANGE
  /\ ~gameState.foundTransmitters[0]
  /\ ~discoveryInProgress[0]

\* ------------------------------------------------- what a sample may touch
\* The step changes the entry, the found flag or the candidacy of a
\* transmitter other than i, or changes totalScore by something other than
\* the points transmitterList gives transmitter i.
TouchesBeyond(i) ==
  \/ \E j \in TxIdx \ {i} :
       \/ transmitters'[j] # transmitters[j]
       \/ gameState'.foundTransmitters[j] # gameState.foundTransmitters[j]
       \/ discoveryTimers'[j] # discoveryTimers[j]
       \/ discoveryInProgress'[j] # discoveryInProgress[j]
  \/ gameState'.totalScore - gameState.totalScore
       \notin {0, transmitterList[i + 1].points}

\* C39: the callback for a sample of transmitter i leaves the entry, the found
\* flag and the candidacy of every other transmitter as they were, and
\* leaves totalScore as it was or greater by the points of transmitter i.
C39_SampleTouchesOneTransmitter ==
  [][\A i \in TxIdx :
       (now' = now /\ lastEvent'.kind # "reset" /\ TouchesBeyond(i))
         => ~SampleFor(i)]_vars

\* The first half of C39 alone: the other transmitters are left as they were.
OthersUntouched ==
  [][\A i \in TxIdx :
       (/\ now' = now
        /\ lastEvent'.kind # "reset"
        /\ \E j \in TxIdx \ {i} :
             \/ transmitters'[j] # transmitters[j]
             \/ gameState'.foundTransmitters[j] # gameState.foundTransmitters[j]
             \/ discoveryTimers'[j] # discoveryTimers[j]
             \/ discoveryInProgress'[j] # discoveryInProgress[j])
         => ~SampleFor(i)]_vars

====
